---- MODULE Spec2Model ----
(***************************************************************************)
(* Model of alert_watcher/watcher.py: a loop that reads nginx access-log   *)
(* lines, tracks the serving pool and a sliding window of 5xx outcomes,    *)
(* and posts failover / error-rate / recovery notifications to Slack under *)
(* a per-kind cooldown and a maintenance-mode switch.                      *)
(*                                                                         *)
(* Strings are sequences of one-character strings, so that lower(),        *)
(* strip('"'), int() and the substring tests are computed, not assumed.    *)
(* Optional values (Python None) are sequences of length 0 or 1.           *)
(* The error rate is the IEEE-754 double the code computes: a value is     *)
(* kept as its integer part and the bits of its fraction.                  *)
(***************************************************************************)
EXTENDS Integers, Sequences, FiniteSets, TLC

(***************************************************************************)
(* Bounds of the model.                                                    *)
(***************************************************************************)
MaxRecords == 3      \* lines processed in one run
MaxClock == 4        \* largest clock reading
MaxStep == 2         \* largest clock advance before a line is processed
MaxSendDelay == 1    \* largest clock advance between the two readings of one iteration
MaxWindow == 2       \* largest configured WINDOW_SIZE

\* The configuration and the bound of the error-burst scenario (SpecBurst).
BurstWindow == 20    \* WINDOW_SIZE
BurstThreshold == 55 \* ERROR_RATE_THRESHOLD
BurstCooldown == 2   \* ALERT_COOLDOWN_SEC
BurstClock == 4      \* largest clock reading

\* The bound of the parsing scenario (SpecParse).
ParseRecords == 2    \* lines processed in one run

(***************************************************************************)
(* Python values.                                                          *)
(***************************************************************************)
None == << >>
Some(x) == << x >>

Digits == {"0", "1", "2", "3", "4", "5", "6", "7", "8", "9"}

DigitValue(c) ==
    CASE c = "0" -> 0 [] c = "1" -> 1 [] c = "2" -> 2 [] c = "3" -> 3
      [] c = "4" -> 4 [] c = "5" -> 5 [] c = "6" -> 6 [] c = "7" -> 7
      [] c = "8" -> 8 [] c = "9" -> 9

RECURSIVE DecimalValue(_)
DecimalValue(s) ==
    IF s = << >> THEN 0
    ELSE 10 * DecimalValue(SubSeq(s, 1, Len(s) - 1)) + DigitValue(s[Len(s)])

\* int(s) for the tokens of the model: an optional sign and decimal digits;
\* anything else raises ValueError, which parse_line turns into None.
int(s) ==
    LET signed == s # << >> /\ s[1] \in {"+", "-"}
        body == IF signed THEN Tail(s) ELSE s
    IN  IF body # << >> /\ \A i \in DOMAIN body : body[i] \in Digits
        THEN Some(IF signed /\ s[1] = "-" THEN 0 - DecimalValue(body)
                  ELSE DecimalValue(body))
        ELSE None

LowerChar(c) ==
    CASE c = "B" -> "b" [] c = "L" -> "l" [] c = "U" -> "u" [] c = "E" -> "e"
      [] c = "G" -> "g" [] c = "R" -> "r" [] c = "N" -> "n"
      [] OTHER -> c

lower(s) == [i \in DOMAIN s |-> LowerChar(s[i])]

RECURSIVE lstrip(_, _)
lstrip(s, c) == IF s # << >> /\ s[1] = c THEN lstrip(Tail(s), c) ELSE s

RECURSIVE rstrip(_, _)
rstrip(s, c) ==
    IF s # << >> /\ s[Len(s)] = c THEN rstrip(SubSeq(s, 1, Len(s) - 1), c) ELSE s

strip(s, c) == rstrip(lstrip(s, c), c)

\* Python's  sub in s
Contains(sub, s) ==
    \E i \in 1..(Len(s) - Len(sub) + 1) : SubSeq(s, i, i + Len(sub) - 1) = sub

(***************************************************************************)
(* Doubles.  A non-negative double is [whole |-> its integer part, frac |->  *)
(* the bits of its fraction, most significant first, no trailing zero].    *)
(* Every operation rounds to 53 significant bits, to nearest, ties to even.*)
(***************************************************************************)
Mantissa == 53

RECURSIVE BitLength(_)
BitLength(n) == IF n = 0 THEN 0 ELSE 1 + BitLength(n \div 2)

RECURSIVE LeadingZeros(_)
LeadingZeros(bits) ==
    IF bits = << >> \/ bits[1] = 1 THEN 0 ELSE 1 + LeadingZeros(Tail(bits))

RECURSIVE Trim(_)
Trim(bits) ==
    IF bits # << >> /\ bits[Len(bits)] = 0 THEN Trim(SubSeq(bits, 1, Len(bits) - 1))
    ELSE bits

\* bits + one unit in the last place: the new bits and the carry out of them
RECURSIVE Increment(_)
Increment(bits) ==
    IF bits = << >> THEN [carry |-> 1, bits |-> << >>]
    ELSE IF bits[Len(bits)] = 0
         THEN [carry |-> 0, bits |-> [bits EXCEPT ![Len(bits)] = 1]]
         ELSE LET up == Increment(SubSeq(bits, 1, Len(bits) - 1))
              IN  [carry |-> up.carry, bits |-> Append(up.bits, 0)]

\* The double nearest to the exact value whole + 0.frac .
Round(whole, frac) ==
    LET keep == IF whole > 0 THEN Mantissa - BitLength(whole)
                ELSE LeadingZeros(frac) + Mantissa
    IN  IF Len(frac) <= keep THEN [whole |-> whole, frac |-> Trim(frac)]
        ELSE LET kept == SubSeq(frac, 1, keep)
                 lsb == IF keep = 0 THEN whole % 2 ELSE kept[keep]
                 sticky == \E i \in (keep + 2)..Len(frac) : frac[i] = 1
                 up == Increment(kept)
             IN  IF frac[keep + 1] = 1 /\ (sticky \/ lsb = 1)
                 THEN [whole |-> whole + up.carry, frac |-> Trim(up.bits)]
                 ELSE [whole |-> whole, frac |-> Trim(kept)]

\* The bits of r / n for 0 < r < n, up to one bit past the mantissa, followed by
\* a bit that says whether anything non-zero comes after them.
RECURSIVE QuotientBits(_, _, _, _)
QuotientBits(r, n, bits, significant) ==
    IF significant = Mantissa + 1 THEN Append(bits, IF r = 0 THEN 0 ELSE 1)
    ELSE LET b == IF 2 * r >= n THEN 1 ELSE 0
         IN  QuotientBits(2 * r - b * n, n, Append(bits, b),
                          IF significant > 0 \/ b = 1 THEN significant + 1 ELSE 0)

\* k / n for integers 0 <= k <= n, 0 < n  (Python's true division)
Divide(k, n) ==
    IF k = 0 THEN [whole |-> 0, frac |-> << >>]
    ELSE IF k = n THEN [whole |-> 1, frac |-> << >>]
    ELSE Round(0, QuotientBits(k, n, << >>, 0))

\* The exact product of 0.frac and the integer m, computed from the last bit
\* (index i) to the first: its integer part (carry) and the bits of its fraction.
RECURSIVE TimesBits(_, _, _, _, _)
TimesBits(frac, m, i, carry, bits) ==
    IF i = 0 THEN [carry |-> carry, bits |-> bits]
    ELSE TimesBits(frac, m, i - 1, (m * frac[i] + carry) \div 2,
                   <<(m * frac[i] + carry) % 2>> \o bits)

\* x * m for a double x and a small integer m
Times(x, m) ==
    LET p == TimesBits(x.frac, m, Len(x.frac), 0, << >>)
    IN  Round(x.whole * m + p.carry, p.bits)

\* x > t for a double x and an integer t
GreaterThan(x, t) == x.whole > t \/ (x.whole = t /\ x.frac # << >>)

blue == <<"b", "l", "u", "e">>
green == <<"g", "r", "e", "e", "n">>
app_blue == <<"a", "p", "p", "-">> \o blue
app_green == <<"a", "p", "p", "-">> \o green

(***************************************************************************)
(* Input lines.  A line is the sequence of key=value tokens KV_RE finds in *)
(* it, each a pair <<key, raw value>>; text outside the tokens plays no    *)
(* part in parse_line.                                                     *)
(***************************************************************************)
quoted(s) == <<"\"">> \o s \o <<"\"">>

Tok(key, value) == << <<key, value>> >>

Lines ==
    { << >>,
      Tok("pool", blue) \o Tok("status", <<"2", "0", "0">>),
      Tok("status", <<"5", "0", "2">>) \o Tok("pool", quoted(<<"G", "r", "e", "e", "n">>)),
      Tok("status", <<"5", "0", "0">>),
      Tok("pool", quoted(<< >>)) \o Tok("upstream_addr", app_green \o <<":", "3">>)
          \o Tok("status", <<"2", "0", "0">>),
      Tok("status", <<"a", "b", "c">>) \o Tok("pool", blue) }

\* Lines of the parsing scenario (SpecParse): the status values around the 5xx
\* range and values int() rejects, and every combination the pool rules tell apart.
StatusTexts ==
    { <<"4", "9", "9">>, <<"5", "0", "0">>, <<"5", "9", "9">>, <<"6", "0", "0">>,
      <<"-", "5", "0", "0">>, <<"5", "x", "x">>, <<"5", "0", "0", ".", "0">>,
      quoted(<<"5", "0", "3">>), quoted(<< >>) }

ParseLines ==
    { Tok("status", t) : t \in StatusTexts }
    \cup
    { Tok("pool", blue),
      Tok("status", <<"5", "0", "0">>) \o Tok("status", <<"2", "0", "0">>),
      Tok("pool", <<"G", "R", "E", "E", "N">>) \o Tok("upstream_addr", app_blue \o <<":", "3">>),
      Tok("pool", quoted(<< >>)) \o Tok("upstream_addr", app_blue \o <<":", "3">>),
      Tok("upstream_addr", app_green \o <<",">> \o app_blue),
      Tok("upstream_addr", <<"x">> \o app_green \o <<":", "3">>),
      Tok("upstream_addr", <<"1", "0", ".", "0", ":", "3">>),
      Tok("pool", quoted(<< >>)),
      Tok("release", <<"v", "1">>) }

(***************************************************************************)
(* State.                                                                  *)
(***************************************************************************)
VARIABLES
    SLACK_WEBHOOK_URL,      \* configuration, read once at start-up
    ACTIVE_POOL,
    ERROR_RATE_THRESHOLD,
    WINDOW_SIZE,
    ALERT_COOLDOWN_SEC,
    MAINTENANCE_MODE,
    window,                 \* main(): deque of 0/1 outcomes
    last_seen_pool,         \* main(): tracked active pool
    last_alert_time,        \* main(): kind -> time of last delivered notification
    alerted_error,          \* main(): an error-rate alert is outstanding
    clock,                  \* time.time()
    line_read,              \* the line of the last iteration
    data,                   \* parse_line result for the last line: status and pool
    error_rate,             \* main(): the last computed error rate, None before the first
    now_read,               \* the clock readings of the last iteration (-1: not read)
    requests,               \* send_slack calls of the last iteration, in order
    outcomes,               \* history: the 0/1 outcomes of the processed lines
    pools_seen,             \* history: the pool of the last line that had one
    delivered,              \* history: kind -> clock readings of delivered notifications
    delivered_types,        \* history: the types of the delivered error_rate-kind notifications
    prev_flip               \* history: the last line whose pool differed from the tracked one

config == <<SLACK_WEBHOOK_URL, ACTIVE_POOL, ERROR_RATE_THRESHOLD, WINDOW_SIZE,
            ALERT_COOLDOWN_SEC, MAINTENANCE_MODE>>

vars == <<config, window, last_seen_pool, last_alert_time, alerted_error, clock,
          line_read, data, error_rate, now_read, requests, outcomes, pools_seen, delivered,
          delivered_types, prev_flip>>

Kinds == {"failover", "error_rate"}

\* The kind (cooldown key) of each notification type.
KindOf(type) == IF type = "failover" THEN "failover" ELSE "error_rate"

EnvPools == { << >>, <<"B", "l", "u", "e">> }
Thresholds == {2, 50}
Cooldowns == {2}

\* The module-level configuration, read from the environment.
Configure ==
    /\ SLACK_WEBHOOK_URL \in {None, Some("url")}
    /\ ACTIVE_POOL \in { lower(p) : p \in EnvPools }
    /\ ERROR_RATE_THRESHOLD \in Thresholds
    /\ WINDOW_SIZE \in 0..MaxWindow
    /\ ALERT_COOLDOWN_SEC \in Cooldowns
    /\ MAINTENANCE_MODE \in BOOLEAN

\* Mutant: the process starts as if both kinds had just been notified at clock 1.
StartStamped ==
    /\ window = << >>
    /\ last_seen_pool = ACTIVE_POOL
    /\ last_alert_time = [k \in Kinds |-> 1]
    /\ alerted_error = FALSE
    /\ clock = 0
    /\ line_read = << >>
    /\ data = [status |-> None, pool |-> None]
    /\ error_rate = None
    /\ now_read = [k \in Kinds |-> -1]
    /\ requests = << >>
    /\ outcomes = << >>
    /\ pools_seen = None
    /\ delivered = [k \in Kinds |-> << >>]
    /\ delivered_types = << >>
    /\ prev_flip = None

\* The locals of main() before the first line, and empty histories.
Start ==
    /\ window = << >>
    /\ last_seen_pool = ACTIVE_POOL
    /\ last_alert_time = [k \in Kinds |-> 0]
    /\ alerted_error = FALSE
    /\ clock = 0
    /\ line_read = << >>
    /\ data = [status |-> None, pool |-> None]
    /\ error_rate = None
    /\ now_read = [k \in Kinds |-> -1]
    /\ requests = << >>
    /\ outcomes = << >>
    /\ pools_seen = None
    /\ delivered = [k \in Kinds |-> << >>]
    /\ delivered_types = << >>
    /\ prev_flip = None

Init == Configure /\ Start

(***************************************************************************)
(* send_slack: False without a webhook; otherwise the outcome of the POST  *)
(* (status < 400 and no exception), which the environment decides.         *)
(***************************************************************************)
send_slack(post_ok) == SLACK_WEBHOOK_URL # None /\ post_ok

(***************************************************************************)
(* parse_line.                                                             *)
(***************************************************************************)
\* The dict comprehension: the last token of a key wins, quotes stripped.
Fields(line) ==
    LET keys == { line[i][1] : i \in DOMAIN line }
        lastOf(k) == CHOOSE i \in DOMAIN line :
                        /\ line[i][1] = k
                        /\ \A j \in DOMAIN line : line[j][1] = k => j <= i
    IN  [k \in keys |-> strip(line[lastOf(k)][2], "\"")]

\* dict.get
get(fields, key) == IF key \in DOMAIN fields THEN Some(fields[key]) ELSE None

Truthy(opt) == opt # None /\ opt[1] # << >>

\* Mutant: the upstream address is tested for the green pool first.
parse_line_green_first(line) ==
    LET fields == Fields(line)
        status == IF "status" \in DOMAIN fields THEN int(fields["status"]) ELSE None
        pool ==
            IF Truthy(get(fields, "pool")) THEN get(fields, "pool")
            ELSE IF "upstream_addr" \in DOMAIN fields
                 THEN IF Contains(app_green, fields["upstream_addr"]) THEN Some(green)
                      ELSE IF Contains(app_blue, fields["upstream_addr"]) THEN Some(blue)
                      ELSE None
                 ELSE None
    IN  [status |-> status,
         pool |-> IF Truthy(pool) THEN Some(lower(pool[1])) ELSE None]

parse_line(line) ==
    LET fields == Fields(line)
        status == IF "status" \in DOMAIN fields THEN int(fields["status"]) ELSE None
        pool ==
            IF Truthy(get(fields, "pool")) THEN get(fields, "pool")
            ELSE IF "upstream_addr" \in DOMAIN fields
                 THEN IF Contains(app_blue, fields["upstream_addr"]) THEN Some(blue)
                      ELSE IF Contains(app_green, fields["upstream_addr"]) THEN Some(green)
                      ELSE None
                 ELSE None
    IN  [status |-> status,
         pool |-> IF Truthy(pool) THEN Some(lower(pool[1])) ELSE None]

\* parse_line on every line of the model, computed once.
Parsed == [line \in Lines \cup ParseLines |-> parse_line(line)]

(***************************************************************************)
(* Helpers of main().                                                      *)
(***************************************************************************)
\* Mutant: the cooldown test is off by one.
CooldownOffByOne(now, last) == now - last >= ALERT_COOLDOWN_SEC - 1

\* now - last_alert_time.get(kind, 0) >= ALERT_COOLDOWN_SEC
CooldownElapsed(now, last) == now - last >= ALERT_COOLDOWN_SEC

\* Mutant: a failed call is retried once.
NotifyRetry(type, now, post_ok) ==
    IF send_slack(post_ok)
    THEN << [type |-> type, now |-> now, sent |-> TRUE] >>
    ELSE << [type |-> type, now |-> now, sent |-> FALSE],
            [type |-> type, now |-> now, sent |-> FALSE] >>

\* One call of send_slack, recorded with the reading of the clock it follows.
Notify(type, now, post_ok) ==
    << [type |-> type, now |-> now, sent |-> send_slack(post_ok)] >>

\* sent, for the (at most one) call in reqs
Sent(reqs) == reqs # << >> /\ reqs[Len(reqs)].sent

\* Mutant: the timestamp is written whether or not the call succeeded.
StampAlways(lat, kind, now, sent) == [lat EXCEPT ![kind] = now]

\* if sent: last_alert_time[kind] = now
Stamp(lat, kind, now, sent) == IF sent THEN [lat EXCEPT ![kind] = now] ELSE lat

\* Mutant: every line with a pool counts as a flip.
FlipDetectedOnAnyPool(pool) ==
    /\ Truthy(pool)
    /\ last_seen_pool # << >>

\* pool and last_seen_pool and pool != last_seen_pool
FlipDetected(pool) ==
    /\ Truthy(pool)
    /\ last_seen_pool # << >>
    /\ pool[1] # last_seen_pool

\* Mutant: the flip branch does not look at MAINTENANCE_MODE.
FailoverDecisionNoMaintenance(now) ==
    IF now - last_alert_time["failover"] >= ALERT_COOLDOWN_SEC THEN "send" ELSE "cooldown"

\* The three branches taken on a detected flip.
FailoverDecision(now) ==
    IF MAINTENANCE_MODE THEN "maintenance"
    ELSE IF CooldownElapsed(now, last_alert_time["failover"]) THEN "send"
    ELSE "cooldown"

\* Mutant: the tracked pool follows the line only when maintenance mode is off.
FailoverStepUntrackedInMaintenance(pool, now, post_ok) ==
    LET reqs == IF FailoverDecision(now) = "send"
                THEN Notify("failover", now, post_ok) ELSE << >>
    IN  [reqs |-> reqs,
         lat |-> Stamp(last_alert_time, "failover", now, Sent(reqs)),
         lsp |-> IF MAINTENANCE_MODE THEN last_seen_pool ELSE pool]

\* The body of the flip branch: the calls made, the timestamps and the tracked pool after it.
FailoverStep(pool, now, post_ok) ==
    LET reqs == IF FailoverDecision(now) = "send"
                THEN Notify("failover", now, post_ok) ELSE << >>
    IN  [reqs |-> reqs,
         lat |-> Stamp(last_alert_time, "failover", now, Sent(reqs)),
         lsp |-> pool]

\* Mutant: the upper end of the 5xx range is included.
Is5xxThrough600(status) == status # None /\ 500 <= status[1] /\ status[1] <= 600

\* isinstance(status, int) and 500 <= status < 600
Is5xx(status) == status # None /\ 500 <= status[1] /\ status[1] < 600

\* Mutant: a full window refuses the new entry instead of dropping the oldest.
WindowAppendKeepOldest(w, x) == IF Len(w) >= WINDOW_SIZE THEN w ELSE Append(w, x)

\* deque(maxlen=WINDOW_SIZE).append
WindowAppend(w, x) ==
    LET a == Append(w, x)
    IN  IF Len(a) > WINDOW_SIZE THEN SubSeq(a, Len(a) - WINDOW_SIZE + 1, Len(a)) ELSE a

RECURSIVE Sum(_)
Sum(w) == IF w = << >> THEN 0 ELSE w[1] + Sum(Tail(w))

\* (k / n) * 100.0 for every window length of the model, computed once.
Percent == [n \in 1..BurstWindow |-> [k \in 0..n |-> Times(Divide(k, n), 100)]]

\* Mutant: the rate is taken over the capacity, not over the samples present.
ErrorRateOverCapacity(w) == Percent[WINDOW_SIZE][Sum(w)]

\* (sum(window) / len(window)) * 100.0
ErrorRate(w) == Percent[Len(w)][Sum(w)]

\* Mutant: the threshold test is not strict.
AtOrAboveThreshold(rate) ==
    rate.whole > ERROR_RATE_THRESHOLD
        \/ (rate.whole = ERROR_RATE_THRESHOLD /\ rate.frac = << >>)
        \/ GreaterThan(rate, ERROR_RATE_THRESHOLD)

\* error_rate > ERROR_RATE_THRESHOLD
AboveThreshold(rate) == GreaterThan(rate, ERROR_RATE_THRESHOLD)

\* Mutant: the error-rate branch takes its cooldown from the later of the two timestamps.
ErrorRateDecisionSharedCooldown(rate, now, lat) ==
    LET last == IF lat["failover"] > lat["error_rate"] THEN lat["failover"]
                ELSE lat["error_rate"]
    IN  IF AboveThreshold(rate)
        THEN IF MAINTENANCE_MODE THEN "maintenance"
             ELSE IF CooldownElapsed(now, last) THEN "alert"
             ELSE "cooldown"
        ELSE IF alerted_error /\ CooldownElapsed(now, last)
             THEN "recovery"
             ELSE "none"

\* The branches of the threshold check.
ErrorRateDecision(rate, now, lat) ==
    IF AboveThreshold(rate)
    THEN IF MAINTENANCE_MODE THEN "maintenance"
         ELSE IF CooldownElapsed(now, lat["error_rate"]) THEN "alert"
         ELSE "cooldown"
    ELSE IF alerted_error /\ CooldownElapsed(now, lat["error_rate"])
         THEN "recovery"
         ELSE "none"

\* Mutant: a delivered recovery notice leaves alerted_error set.
ErrorRateStepRecoveryKeepsFlag(w, lat, now, post_ok) ==
    LET rate == ErrorRate(w)
        decision == ErrorRateDecision(rate, now, lat)
        reqs == IF decision = "alert" THEN Notify("error_rate", now, post_ok)
                ELSE IF decision = "recovery" THEN Notify("recovery", now, post_ok)
                ELSE << >>
    IN  [reqs |-> reqs,
         rate |-> Some(rate),
         lat |-> Stamp(lat, "error_rate", now, Sent(reqs)),
         alerted |-> IF Sent(reqs) THEN TRUE ELSE alerted_error]

\* The body of  if len(window) >= 1 : lat is last_alert_time after the flip branch.
ErrorRateStep(w, lat, now, post_ok) ==
    LET rate == ErrorRate(w)
        decision == ErrorRateDecision(rate, now, lat)
        reqs == IF decision = "alert" THEN Notify("error_rate", now, post_ok)
                ELSE IF decision = "recovery" THEN Notify("recovery", now, post_ok)
                ELSE << >>
    IN  [reqs |-> reqs,
         rate |-> Some(rate),
         lat |-> Stamp(lat, "error_rate", now, Sent(reqs)),
         alerted |-> IF Sent(reqs) THEN decision = "alert" ELSE alerted_error]

(***************************************************************************)
(* History kept for the properties.                                        *)
(***************************************************************************)
RECURSIVE Log(_, _)
Log(hist, reqs) ==
    IF reqs = << >> THEN hist
    ELSE Log(IF reqs[1].sent
             THEN [hist EXCEPT ![KindOf(reqs[1].type)] = Append(@, reqs[1].now)]
             ELSE hist,
             Tail(reqs))

\* The types of the delivered calls among reqs, in order.
LogTypes(reqs) ==
    IF Sent(reqs) THEN << reqs[Len(reqs)].type >> ELSE << >>

\* The outcomes history keeps the last BurstWindow entries, enough for every window.
Remember(hist, x) ==
    IF Len(hist) >= BurstWindow THEN Tail(hist) \o << x >> ELSE Append(hist, x)

(***************************************************************************)
(* One iteration of the loop of main(): a line arrives dt after the        *)
(* previous iteration ended; when the flip branch calls send_slack, which  *)
(* blocks, delay passes before the clock reading of the error-rate branch. *)
(***************************************************************************)
\* What the environment can answer to a call of send_slack, and how long the
\* call can block; a single dummy value when no call is made.
PostOutcomes(called) == IF called THEN BOOLEAN ELSE {FALSE}
SendDelays(called) == IF called THEN 0..MaxSendDelay ELSE {0}

ProcessLine(line, dt) ==
    /\ \E d \in {Parsed[line]}, now1 \in {clock + dt} :
       \E flip \in {FlipDetected(d.pool)} :
       \E post_ok1 \in PostOutcomes(flip /\ FailoverDecision(now1) = "send") :
       \E fo \in {IF flip THEN FailoverStep(d.pool[1], now1, post_ok1)
                  ELSE [reqs |-> << >>, lat |-> last_alert_time, lsp |-> last_seen_pool]} :
       \E delay \in SendDelays(fo.reqs # << >>),
          x \in {IF Is5xx(d.status) THEN 1 ELSE 0} :
       \E now2 \in {now1 + delay}, w \in {WindowAppend(window, x)} :
       \E post_ok2 \in PostOutcomes(Len(w) >= 1 /\
                        ErrorRateDecision(ErrorRate(w), now2, fo.lat) \in {"alert", "recovery"}) :
       \E er \in {IF Len(w) >= 1 THEN ErrorRateStep(w, fo.lat, now2, post_ok2)
                  ELSE [reqs |-> << >>, rate |-> error_rate, lat |-> fo.lat,
                        alerted |-> alerted_error]} :
           /\ line_read' = line
           /\ data' = d
           /\ last_seen_pool' = fo.lsp
           /\ window' = w
           /\ error_rate' = er.rate
           /\ last_alert_time' = er.lat
           /\ alerted_error' = er.alerted
           /\ clock' = now2
           /\ now_read' = [k \in Kinds |->
                             IF k = "failover" THEN (IF flip THEN now1 ELSE -1)
                             ELSE (IF Len(w) >= 1 THEN now2 ELSE -1)]
           /\ requests' = fo.reqs \o er.reqs
           /\ outcomes' = Remember(outcomes, x)
           /\ pools_seen' = IF d.pool # None THEN d.pool ELSE pools_seen
           /\ delivered' = Log(delivered, fo.reqs \o er.reqs)
           /\ delivered_types' = delivered_types \o LogTypes(er.reqs)
           /\ prev_flip' = IF d.pool # None /\ d.pool[1] # last_seen_pool
                           THEN Some([now |-> now1,
                                      elapsed |-> CooldownElapsed(now1, last_alert_time["failover"]),
                                      nreq |-> Len(fo.reqs),
                                      tracked |-> fo.lsp = d.pool[1]])
                           ELSE prev_flip
           /\ UNCHANGED config

\* Any line, any time: a run of at most MaxRecords lines that ends by MaxClock.
Next ==
    \E line \in Lines, dt \in 0..MaxStep :
        /\ Len(outcomes) < MaxRecords
        /\ clock + dt <= MaxClock
        /\ ProcessLine(line, dt)
        /\ clock' <= MaxClock

Spec == Init /\ [][Next]_vars

(***************************************************************************)
(* The error-burst scenario: one configuration with a window of            *)
(* BurstWindow lines, fed a run of 5xx lines followed by a run of 200      *)
(* lines, at most BurstWindow lines in all.                                *)
(***************************************************************************)
BurstLines ==
    { Tok("status", <<"5", "0", "0">>),
      Tok("pool", blue) \o Tok("status", <<"2", "0", "0">>) }

BurstInit ==
    /\ SLACK_WEBHOOK_URL = Some("url")
    /\ ACTIVE_POOL = blue
    /\ ERROR_RATE_THRESHOLD = BurstThreshold
    /\ WINDOW_SIZE = BurstWindow
    /\ ALERT_COOLDOWN_SEC = BurstCooldown
    /\ MAINTENANCE_MODE = FALSE
    /\ Start

BurstNext ==
    \E line \in BurstLines, dt \in 0..1 :
        /\ Len(outcomes) < BurstWindow
        /\ clock + dt <= BurstClock
        /\ Is5xx(Parsed[line].status) => \A i \in DOMAIN outcomes : outcomes[i] = 1
        /\ ProcessLine(line, dt)
        /\ clock' <= BurstClock

SpecBurst == BurstInit /\ [][BurstNext]_vars

(***************************************************************************)
(* The steady-load scenario: the configuration of the error-burst          *)
(* scenario and an endless stream of lines.  The window fills with a run   *)
(* of 5xx lines followed by 200 lines; once it is full every line has the  *)
(* outcome of the entry it pushes out, so the error count stays what it    *)
(* is.  A line arrives at every tick of the clock until the clock stops at *)
(* BurstClock, where the later lines arrive.  Lines keep arriving, and a   *)
(* recovery call that is made again and again is delivered in the end.     *)
(***************************************************************************)
SteadyNext ==
    \E line \in BurstLines, dt \in {IF clock < BurstClock THEN 1 ELSE 0} :
        /\ IF Len(window) < WINDOW_SIZE
           THEN Is5xx(Parsed[line].status) => \A i \in DOMAIN window : window[i] = 1
           ELSE Is5xx(Parsed[line].status) <=> window[1] = 1
        /\ ProcessLine(line, dt)
        /\ clock' <= BurstClock

RecoveryDelivered ==
    SteadyNext /\ \E i \in DOMAIN requests' :
                     requests'[i].type = "recovery" /\ requests'[i].sent

SpecSteady ==
    /\ BurstInit
    /\ [][SteadyNext]_vars
    /\ WF_vars(SteadyNext)
    /\ SF_vars(RecoveryDelivered)

(***************************************************************************)
(* The parsing scenario: a run of at most ParseRecords lines drawn from    *)
(* ParseLines, with the webhook set and the initial pool blue.             *)
(***************************************************************************)
ParseInit ==
    /\ SLACK_WEBHOOK_URL = Some("url")
    /\ ACTIVE_POOL = blue
    /\ ERROR_RATE_THRESHOLD \in Thresholds
    /\ WINDOW_SIZE = MaxWindow
    /\ ALERT_COOLDOWN_SEC \in Cooldowns
    /\ MAINTENANCE_MODE \in BOOLEAN
    /\ Start

ParseNext ==
    \E line \in ParseLines, dt \in 0..1 :
        /\ Len(outcomes) < ParseRecords
        /\ ProcessLine(line, dt)

SpecParse == ParseInit /\ [][ParseNext]_vars

(***************************************************************************)
(* Vocabulary of the properties.                                           *)
(***************************************************************************)
Min(a, b) == IF a < b THEN a ELSE b

\* The number of error entries of a window, counted entry by entry.
ErrorCount(w) == Cardinality({ i \in DOMAIN w : w[i] = 1 })

\* The calls of the last iteration for one cooldown key / of one type.
RequestsOfKind(reqs, k) == { i \in DOMAIN reqs : KindOf(reqs[i].type) = k }
RequestsOfType(reqs, t) == { i \in DOMAIN reqs : reqs[i].type = t }

\* The step processes a line whose pool is present and differs from the tracked pool.
PoolDiffers == data'.pool # None /\ data'.pool[1] # last_seen_pool

(***************************************************************************)
(* C1: any two delivered notifications of the same kind (failover; or      *)
(* error_rate, which covers elevated-rate and recovery notices) were sent  *)
(* at clock readings at least ALERT_COOLDOWN_SEC apart.                    *)
(***************************************************************************)
C1_CooldownSpacing ==
    \A k \in Kinds : \A i, j \in DOMAIN delivered[k] :
        i < j => delivered[k][j] - delivered[k][i] >= ALERT_COOLDOWN_SEC

\* An elevated-rate notice and its recovery notice, delivered exactly one cooldown apart.
C1_Witness ==
    /\ Len(delivered["error_rate"]) = 2
    /\ delivered["error_rate"][2] - delivered["error_rate"][1] = ALERT_COOLDOWN_SEC
    /\ ALERT_COOLDOWN_SEC > 0
    /\ RequestsOfType(requests, "recovery") # {}

(***************************************************************************)
(* C2: with maintenance mode on, no call of send_slack is ever made, of    *)
(* any type, and so nothing is ever delivered.                             *)
(***************************************************************************)
C2_MaintenanceSilent ==
    MAINTENANCE_MODE => /\ requests = << >>
                        /\ \A k \in Kinds : delivered[k] = << >>

\* Maintenance mode on, a flip was detected and the rate is above the threshold.
C2_Witness ==
    /\ MAINTENANCE_MODE
    /\ SLACK_WEBHOOK_URL # None
    /\ now_read["failover"] >= ALERT_COOLDOWN_SEC
    /\ last_seen_pool # ACTIVE_POOL
    /\ Len(window) >= 1
    /\ 100 * ErrorCount(window) > ERROR_RATE_THRESHOLD * Len(window)

(***************************************************************************)
(* C3 as claimed: processing one line makes at most one call of send_slack.*)
(***************************************************************************)
C3_AtMostOneRequest == Len(requests) <= 1

(***************************************************************************)
(* C3 amended: processing one line makes at most one failover call and at  *)
(* most one error_rate-kind call (elevated-rate or recovery), so at most   *)
(* two calls of send_slack.                                                *)
(***************************************************************************)
C3_AtMostOnePerKind ==
    /\ \A k \in Kinds : Cardinality(RequestsOfKind(requests, k)) <= 1
    /\ Len(requests) <= 2

\* One line that produced a failover call and then an elevated-rate call.
C3_Witness ==
    /\ Len(requests) = 2
    /\ requests[1].type = "failover"
    /\ requests[2].type = "error_rate"

(***************************************************************************)
(* C4: a cooldown timestamp changes only in a step that delivered a        *)
(* notification of its kind, and alerted_error only in a step that         *)
(* delivered an error_rate-kind notification; steps that suppress the      *)
(* alert or whose delivery fails leave them as they were.                  *)
(***************************************************************************)
C4_OnlyDeliveryStamps ==
    [][ /\ \A k \in Kinds :
            last_alert_time'[k] # last_alert_time[k]
                => \E i \in RequestsOfKind(requests', k) :
                       requests'[i].sent /\ last_alert_time'[k] = requests'[i].now
        /\ alerted_error' # alerted_error
                => \E i \in RequestsOfKind(requests', "error_rate") : requests'[i].sent
      ]_vars

\* A failed delivery with a webhook configured: the timestamps are still the initial ones.
C4_Witness ==
    /\ SLACK_WEBHOOK_URL # None
    /\ Len(requests) = 2
    /\ ~requests[1].sent /\ ~requests[2].sent
    /\ last_alert_time = [k \in Kinds |-> 0]
    /\ ~alerted_error

(***************************************************************************)
(* C5: after k lines the window holds the outcomes of the last             *)
(* min(k, WINDOW_SIZE) lines, in arrival order.                            *)
(***************************************************************************)
C5_WindowIsRecentOutcomes ==
    LET k == Len(outcomes)
        m == Min(k, WINDOW_SIZE)
    IN  /\ Len(window) <= WINDOW_SIZE
        /\ window = SubSeq(outcomes, k - m + 1, k)

\* A full window of size 2 that dropped an error entry and kept the two later ones.
C5_Witness ==
    /\ WINDOW_SIZE = 2
    /\ outcomes = <<1, 0, 1>>
    /\ window = <<0, 1>>

C7_TrackedPoolIsLastSeen ==
    last_seen_pool = IF pools_seen = None THEN ACTIVE_POOL ELSE pools_seen[1]

(***************************************************************************)
(* C8: a line whose pool is present and differs from the tracked pool,     *)
(* processed with maintenance mode off and the failover cooldown elapsed,  *)
(* makes exactly one failover call and moves the tracked pool to the       *)
(* line's pool; if the call succeeds the failover timestamp becomes the    *)
(* clock reading of that line.                                             *)
(***************************************************************************)
C8_FlipNotifies ==
    [][ (PoolDiffers /\ ~MAINTENANCE_MODE /\ prev_flip'[1].elapsed)
            => /\ Cardinality(RequestsOfType(requests', "failover")) = 1
               /\ last_seen_pool' = data'.pool[1]
               /\ (\E i \in RequestsOfType(requests', "failover") : requests'[i].sent)
                      => last_alert_time'["failover"] = prev_flip'[1].now
      ]_vars

(***************************************************************************)
(* C9: of two successive flips less than ALERT_COOLDOWN_SEC apart, with    *)
(* maintenance mode off and the cooldown elapsed before the first, exactly *)
(* one produces a failover call (the first; the second is suppressed) and  *)
(* both move the tracked pool.                                             *)
(***************************************************************************)
C9_SecondFlipSuppressed ==
    [][ ( /\ PoolDiffers
          /\ prev_flip # None
          /\ ~MAINTENANCE_MODE
          /\ prev_flip[1].elapsed
          /\ prev_flip'[1].now - prev_flip[1].now < ALERT_COOLDOWN_SEC )
            => /\ prev_flip[1].nreq = 1
               /\ prev_flip'[1].nreq = 0
               /\ prev_flip[1].tracked
               /\ prev_flip'[1].tracked
      ]_vars

(***************************************************************************)
(* C10: once a line's outcome is in the window, an elevated-rate call is   *)
(* made for it exactly when the rate is strictly above the threshold,      *)
(* maintenance mode is off and the error_rate cooldown has elapsed; a rate *)
(* equal to the threshold makes none.  A delivered call sets the           *)
(* error_rate timestamp to the clock reading and alerted_error to true.    *)
(* The rate of the claim is the exact 100 * errors / entries.              *)
(***************************************************************************)
C10_ElevatedRateAlert ==
    [][ LET issued == RequestsOfType(requests', "error_rate")
            above == 100 * ErrorCount(window') > ERROR_RATE_THRESHOLD * Len(window')
            equal == 100 * ErrorCount(window') = ERROR_RATE_THRESHOLD * Len(window')
        IN  /\ Len(window') >= 1 =>
                  (issued # {} <=>
                       /\ above
                       /\ ~MAINTENANCE_MODE
                       /\ clock' - last_alert_time["error_rate"] >= ALERT_COOLDOWN_SEC)
            /\ Len(window') = 0 => issued = {}
            /\ equal => issued = {}
            /\ \A i \in issued :
                  /\ requests'[i].now = clock'
                  /\ requests'[i].sent =>
                        last_alert_time'["error_rate"] = clock' /\ alerted_error'
      ]_vars

(***************************************************************************)
(* C11: with alerted_error set, a line that leaves the rate at or below    *)
(* the threshold with the error_rate cooldown elapsed makes exactly one    *)
(* recovery call; a delivered recovery clears alerted_error and sets the   *)
(* error_rate timestamp to the clock reading; a recovery call is made only *)
(* with alerted_error set, so none follows until another elevated-rate     *)
(* notification is delivered.  The rate of the claim is the exact          *)
(* 100 * errors / entries.                                                 *)
(***************************************************************************)
C11_RecoveryOnce ==
    [][ LET issued == RequestsOfType(requests', "recovery")
            atOrBelow == 100 * ErrorCount(window') <= ERROR_RATE_THRESHOLD * Len(window')
            elapsed == clock' - last_alert_time["error_rate"] >= ALERT_COOLDOWN_SEC
        IN  /\ (Len(window') >= 1 /\ alerted_error /\ atOrBelow /\ elapsed)
                  => Cardinality(issued) = 1
            /\ issued # {} => alerted_error /\ atOrBelow /\ elapsed
            /\ \A i \in issued :
                  /\ requests'[i].now = clock'
                  /\ requests'[i].sent =>
                        ~alerted_error' /\ last_alert_time'["error_rate"] = clock'
                  /\ ~requests'[i].sent =>
                        alerted_error' /\ last_alert_time'["error_rate"] = last_alert_time["error_rate"]
      ]_vars

(***************************************************************************)
(* C12: the tracked pool and the window are functions of the lines read    *)
(* (their pools and outcomes), ACTIVE_POOL and WINDOW_SIZE alone: neither  *)
(* MAINTENANCE_MODE, nor the clock, nor the outcome of any delivery enters *)
(* them, so two runs over the same lines that differ in maintenance mode   *)
(* or in delivery outcomes agree on both after every line.                 *)
(***************************************************************************)
\* The tracked pool as a function of the configured pool and the pools read.
TrackedPool(initial, seen) ==
    IF initial = << >> \/ seen = None THEN initial ELSE seen[1]

\* The window as a function of the outcomes read.
RecentOutcomes(all, size) ==
    SubSeq(all, Len(all) - Min(Len(all), size) + 1, Len(all))

C12_TrackingIgnoresMaintenance ==
    /\ last_seen_pool = TrackedPool(ACTIVE_POOL, pools_seen)
    /\ window = RecentOutcomes(outcomes, WINDOW_SIZE)

\* Maintenance mode on: the tracked pool has followed a flip and the window has slid
\* over an error, with no call made.
C12_Witness ==
    /\ MAINTENANCE_MODE
    /\ pools_seen # None
    /\ last_seen_pool = pools_seen[1]
    /\ last_seen_pool # ACTIVE_POOL
    /\ WINDOW_SIZE >= 1
    /\ Len(outcomes) > WINDOW_SIZE
    /\ ErrorCount(window) >= 1
    /\ requests = << >>

(***************************************************************************)
(* C13: every line pushes exactly one sample; the sample is an error       *)
(* exactly when the parsed status is present and 500 <= status < 600; a    *)
(* line without a status token, or whose status text is not a decimal      *)
(* integer, has status None and pushes a non-error sample.                 *)
(***************************************************************************)
\* The text of the status field of a line (quotes stripped), None without the token.
StatusText(line) == get(Fields(line), "status")

\* A text int() accepts: an optional sign and at least one decimal digit.
IsNumeral(text) ==
    \/ text # << >> /\ \A i \in DOMAIN text : text[i] \in Digits
    \/ /\ Len(text) >= 2
       /\ text[1] \in {"+", "-"}
       /\ \A i \in 2..Len(text) : text[i] \in Digits

C13_ErrorSample ==
    [][ LET x == outcomes'[Len(outcomes')]
            text == StatusText(line_read')
        IN  /\ Len(outcomes') = Len(outcomes) + 1
            /\ window' = RecentOutcomes(Append(window, x), WINDOW_SIZE)
            /\ x \in {0, 1}
            /\ x = 1 <=> ( /\ data'.status # None
                           /\ 500 <= data'.status[1]
                           /\ data'.status[1] < 600 )
            /\ (text = None \/ ~IsNumeral(text[1])) => data'.status = None /\ x = 0
            /\ (text # None /\ IsNumeral(text[1])) => data'.status # None
      ]_vars

\* After an error line (status 599), a line with the status text 5xx: status None,
\* and a non-error sample at the end of the window.
C13_Witness ==
    /\ line_read = Tok("status", <<"5", "x", "x">>)
    /\ data.status = None
    /\ outcomes = <<1, 0>>
    /\ window = <<1, 0>>

(***************************************************************************)
(* C14: a recovery notice that is owed is not lost.  While alerted_error   *)
(* is set it is cleared only by a delivered recovery, and every line that  *)
(* leaves the rate at or below the threshold out of cooldown makes a       *)
(* recovery call; so, when lines keep arriving, the clock passes the       *)
(* cooldown and deliveries succeed in the end, alerted_error set leads to  *)
(* alerted_error cleared unless the rate goes above the threshold again.   *)
(* The rate of the claim is the exact 100 * errors / entries.              *)
(***************************************************************************)
\* The exact rate of the window is above the threshold.
ExactlyAbove(w) == 100 * ErrorCount(w) > ERROR_RATE_THRESHOLD * Len(w)

\* alerted_error is set, and the cooldown ends before the clock of the scenario stops.
RecoveryOwed ==
    alerted_error /\ last_alert_time["error_rate"] + ALERT_COOLDOWN_SEC <= BurstClock

RecoveredOrAbove == ~alerted_error \/ ExactlyAbove(window)

C14_RecoveryNotLost ==
    /\ [][ /\ (alerted_error /\ ~alerted_error')
                => \E i \in RequestsOfType(requests', "recovery") : requests'[i].sent
           /\ ( /\ alerted_error
                /\ Len(window') >= 1
                /\ ~ExactlyAbove(window')
                /\ clock' - last_alert_time["error_rate"] >= ALERT_COOLDOWN_SEC )
                => RequestsOfType(requests', "recovery") # {}
         ]_vars
    /\ RecoveryOwed ~> RecoveredOrAbove

(***************************************************************************)
(* C15: a failed delivery costs no cooldown: when the failover call of the *)
(* previous line failed, a line whose pool differs from the tracked pool   *)
(* makes a failover call again, and when the elevated-rate call of the     *)
(* previous line failed, a line that leaves the rate above the threshold   *)
(* makes an elevated-rate call again (maintenance mode off), whatever the  *)
(* clock reads.  Without a webhook every call fails, both timestamps stay  *)
(* 0, alerted_error stays false and no recovery call is made, while the    *)
(* tracked pool still follows the pools read and the window the outcomes.  *)
(***************************************************************************)
C15_FailedDeliveryNoPenalty ==
    /\ [][ ~MAINTENANCE_MODE =>
             /\ ( /\ \E i \in RequestsOfType(requests, "failover") : ~requests[i].sent
                  /\ PoolDiffers )
                    => RequestsOfType(requests', "failover") # {}
             /\ ( /\ \E i \in RequestsOfType(requests, "error_rate") : ~requests[i].sent
                  /\ Len(window') >= 1
                  /\ ExactlyAbove(window') )
                    => RequestsOfType(requests', "error_rate") # {}
         ]_vars
    /\ [](SLACK_WEBHOOK_URL = None =>
             /\ last_alert_time = [k \in Kinds |-> 0]
             /\ ~alerted_error
             /\ RequestsOfType(requests, "recovery") = {}
             /\ \A i \in DOMAIN requests : ~requests[i].sent
             /\ window = RecentOutcomes(outcomes, WINDOW_SIZE)
             /\ last_seen_pool = IF pools_seen = None THEN ACTIVE_POOL ELSE pools_seen[1])

(***************************************************************************)
(* C16: the two kinds of alert are independent.  Whether a line makes a    *)
(* failover call is decided by the line's pool, the tracked pool,          *)
(* maintenance mode and the failover timestamp alone, and the flip branch  *)
(* writes only the tracked pool and the failover timestamp; whether it     *)
(* makes an elevated-rate or a recovery call is decided by the window,     *)
(* maintenance mode, alerted_error and the error_rate timestamp alone, and *)
(* the error-rate branch writes only the error_rate timestamp and          *)
(* alerted_error.  So a failover call, delivered or suppressed, never      *)
(* suppresses an error_rate-kind call, nor the other way round.            *)
(***************************************************************************)
C16_KindsIndependent ==
    [][ LET flip == /\ data'.pool # None
                    /\ last_seen_pool # << >>
                    /\ data'.pool[1] # last_seen_pool
            above == Len(window') >= 1 /\ AboveThreshold(ErrorRate(window'))
            elapsed(k, now) == now - last_alert_time[k] >= ALERT_COOLDOWN_SEC
            failover == RequestsOfType(requests', "failover")
            elevated == RequestsOfType(requests', "error_rate")
            recovery == RequestsOfType(requests', "recovery")
        IN  /\ failover # {} <=>
                  flip /\ ~MAINTENANCE_MODE /\ elapsed("failover", now_read'["failover"])
            /\ elevated # {} <=>
                  above /\ ~MAINTENANCE_MODE /\ elapsed("error_rate", clock')
            /\ recovery # {} <=>
                  Len(window') >= 1 /\ ~above /\ alerted_error /\ elapsed("error_rate", clock')
            /\ last_seen_pool' = IF flip THEN data'.pool[1] ELSE last_seen_pool
            /\ last_alert_time'["failover"] =
                  IF \E i \in failover : requests'[i].sent
                  THEN now_read'["failover"] ELSE last_alert_time["failover"]
            /\ last_alert_time'["error_rate"] =
                  IF \E i \in elevated \cup recovery : requests'[i].sent
                  THEN clock' ELSE last_alert_time["error_rate"]
            /\ alerted_error' =
                  IF \E i \in elevated : requests'[i].sent THEN TRUE
                  ELSE IF \E i \in recovery : requests'[i].sent THEN FALSE
                  ELSE alerted_error
      ]_vars

\* One line whose failover call and elevated-rate call were both delivered, each
\* stamping its own timestamp.
C16_Witness ==
    /\ Len(requests) = 2
    /\ requests[1].type = "failover" /\ requests[1].sent
    /\ requests[2].type = "error_rate" /\ requests[2].sent
    /\ last_alert_time["failover"] = requests[1].now
    /\ last_alert_time["error_rate"] = requests[2].now
    /\ alerted_error

(***************************************************************************)
(* C17: a line without a pool, or whose pool is the tracked pool, makes no *)
(* failover call and leaves the tracked pool and the failover timestamp    *)
(* as they were; its outcome still enters the window and the error rate is *)
(* still computed.                                                         *)
(***************************************************************************)
C17_NoFlipNoFailover ==
    [][ (data'.pool = None \/ data'.pool[1] = last_seen_pool)
            => /\ RequestsOfType(requests', "failover") = {}
               /\ last_seen_pool' = last_seen_pool
               /\ last_alert_time'["failover"] = last_alert_time["failover"]
               /\ now_read'["failover"] = -1
               /\ Len(outcomes') = Len(outcomes) + 1
               /\ window' = RecentOutcomes(Append(window, outcomes'[Len(outcomes')]), WINDOW_SIZE)
               /\ Len(window') >= 1 => error_rate' = Some(ErrorRate(window'))
                                       /\ now_read'["error_rate"] = clock'
      ]_vars

\* A line with the tracked pool, out of the failover cooldown and with maintenance off,
\* that made an elevated-rate call and no failover call.
C17_Witness ==
    /\ ~MAINTENANCE_MODE
    /\ data.pool # None
    /\ data.pool[1] = last_seen_pool
    /\ now_read["failover"] = -1
    /\ Len(outcomes) >= 2
    /\ clock - last_alert_time["failover"] >= ALERT_COOLDOWN_SEC
    /\ Len(requests) = 1
    /\ requests[1].type = "error_rate"

(***************************************************************************)
(* C18: the pool of a parsed line is the explicit pool field, lower-cased, *)
(* when that field is present and not empty, whatever upstream_addr says;  *)
(* otherwise blue when upstream_addr contains app-blue, otherwise green    *)
(* when it contains app-green, otherwise None.  parse_line gives a status  *)
(* and a pool for every line.                                              *)
(***************************************************************************)
C18_PoolOfLine ==
    LET explicit == get(Fields(line_read), "pool")
        upstream == get(Fields(line_read), "upstream_addr")
        has(sub) == upstream # None /\ Contains(sub, upstream[1])
    IN  /\ (explicit # None /\ explicit[1] # << >>)
              => data.pool = Some(lower(explicit[1]))
        /\ (explicit = None \/ explicit[1] = << >>)
              => /\ has(app_blue) => data.pool = Some(blue)
                 /\ (~has(app_blue) /\ has(app_green)) => data.pool = Some(green)
                 /\ (~has(app_blue) /\ ~has(app_green)) => data.pool = None
        /\ data.pool # None => /\ data.pool[1] # << >>
                               /\ lower(data.pool[1]) = data.pool[1]
        /\ data.status = None \/ (Len(data.status) = 1 /\ data.status[1] \in Int)

\* An explicit pool GREEN beside an upstream address of the blue pool: the pool is green.
C18_Witness ==
    /\ line_read = Tok("pool", <<"G", "R", "E", "E", "N">>)
                      \o Tok("upstream_addr", app_blue \o <<":", "3">>)
    /\ data.pool = Some(green)
    /\ last_seen_pool = green

(***************************************************************************)
(* C19: alerted_error is set exactly when the last delivered               *)
(* error_rate-kind notification was an elevated-rate alert (and is not set *)
(* when none was delivered); so every delivered recovery notice comes      *)
(* right after a delivered elevated-rate alert, and a recovery call is     *)
(* made only when some elevated-rate alert was delivered and not yet       *)
(* answered by a recovery notice.                                          *)
(***************************************************************************)
C19_FlagTracksLastDelivered ==
    LET n == Len(delivered_types)
    IN  /\ alerted_error <=> (n > 0 /\ delivered_types[n] = "error_rate")
        /\ n = Len(delivered["error_rate"])
        /\ \A i \in 1..n :
              delivered_types[i] = "recovery"
                  => i > 1 /\ delivered_types[i - 1] = "error_rate"
        /\ \A i \in RequestsOfType(requests, "recovery") :
              LET before == IF requests[i].sent THEN n - 1 ELSE n
              IN  before > 0 /\ delivered_types[before] = "error_rate"

\* An elevated-rate alert and then its recovery notice were delivered.
C19_Witness ==
    /\ delivered_types = <<"error_rate", "recovery">>
    /\ ~alerted_error
    /\ Len(requests) = 1
    /\ requests[1].type = "recovery"
    /\ requests[1].sent

(***************************************************************************)
(* C20: there is no start-up cooldown.  Both timestamps are 0 before the   *)
(* first line; with maintenance mode off and the clock reading at least    *)
(* ALERT_COOLDOWN_SEC, a detected flip makes a failover call when no       *)
(* failover notification was delivered before, and a line that leaves the  *)
(* rate above the threshold makes an elevated-rate call when no            *)
(* error_rate-kind notification was delivered before: the cooldown         *)
(* suppresses a kind only after a delivery of that kind.                   *)
(***************************************************************************)
C20_NoStartupCooldown ==
    /\ [](outcomes = << >> => last_alert_time = [k \in Kinds |-> 0])
    /\ [][ ~MAINTENANCE_MODE =>
             /\ ( /\ PoolDiffers
                  /\ last_seen_pool # << >>
                  /\ now_read'["failover"] >= ALERT_COOLDOWN_SEC
                  /\ delivered["failover"] = << >> )
                    => RequestsOfType(requests', "failover") # {}
             /\ ( /\ Len(window') >= 1
                  /\ ExactlyAbove(window')
                  /\ clock' >= ALERT_COOLDOWN_SEC
                  /\ delivered["error_rate"] = << >> )
                    => RequestsOfType(requests', "error_rate") # {}
         ]_vars

\* The first line of a run, read at clock ALERT_COOLDOWN_SEC: it flips the pool and
\* leaves the rate above the threshold, and both calls are made.
C20_Witness ==
    /\ Len(outcomes) = 1
    /\ clock = ALERT_COOLDOWN_SEC
    /\ ALERT_COOLDOWN_SEC > 0
    /\ ~MAINTENANCE_MODE
    /\ RequestsOfType(requests, "failover") # {}
    /\ RequestsOfType(requests, "error_rate") # {}
    /\ last_seen_pool # ACTIVE_POOL
====
